---- MODULE Spec2Model ----
(***************************************************************************)
(* Model of fourier-funtime (src/src/main.rs): the complex arithmetic, the *)
(* discrete Fourier transform with truncation, the Fourier series          *)
(* evaluator and its epicycle chain, the trail, and the frame loop's time. *)
(*                                                                         *)
(* Numbers.  The program computes in f32.  In the transform and the        *)
(* evaluator a number is modelled by the exact value (a + b*sqrt(3)) / d,  *)
(* which holds every sine and cosine of a multiple of a twelfth of a turn: *)
(* signal lengths 1, 2, 3, 4 and times that are twelfths are computed      *)
(* without rounding.  What is checked there is the algorithm; the program  *)
(* reproduces it to within f32 rounding, and f32 overflow to infinity or   *)
(* NaN is outside the model.  The frame loop's time is modelled as the f32 *)
(* it is, by its bit pattern, with addition rounded to nearest even.       *)
(***************************************************************************)
EXTENDS Integers, Sequences, FiniteSets, TLC

VARIABLES
    pc,              \* position of the scenario being run
    signal,          \* compute_complex_dft: the signal argument
    path_points,     \* PathFourier::new: the path_points argument
    num_components,  \* compute_complex_dft / PathFourier::new: num_components
    components,      \* PathFourier.components / compute_complex_dft's result
    center,          \* PathFourier.center
    path,            \* PathFourier.path: the trail, most recent point first
    eval_time,       \* the time passed to evaluate and draw_vectors, in twelfths
    point,           \* the Vector2 evaluate returned
    segments,        \* the (prev_pos, current_pos) lines draw_vectors drew
    calls,           \* history: the update_path calls made so far, in order
    time,            \* main: time, an f32
    trail_times,     \* main: the times whose points the trail of every
                     \* element of paths holds, most recent first
    passed,          \* history: the time the last frame passed to each instance
    frame,           \* history: frames since time was last 0.0
    cycle_len        \* history: frames the last completed cycle took

vars == <<pc, signal, path_points, num_components, components, center, path,
          eval_time, point, segments, calls, time, trail_times, passed, frame,
          cycle_len>>

----------------------------------------------------------------------------
(* Bounds *)

\* coordinates of input points lie in -MaxCoord .. MaxCoord
MaxCoord == 1
\* signals have at most MaxLen samples
MaxLen == 4
\* paths handed to PathFourier::new have at most MaxPathLen points
MaxPathLen == 3
\* num_components ranges over 0 .. MaxComponents
MaxComponents == 5
\* trail points are numbered 0 .. MaxPoint
MaxPoint == 1
\* max_path_length ranges over 0 .. MaxPathLength
MaxPathLength == 2
\* at most MaxCalls calls of update_path are followed
MaxCalls == 4

----------------------------------------------------------------------------
(* Exact numbers (a + b*sqrt(3)) / d, d > 0, in lowest terms *)

Abs(n) == IF n < 0 THEN -n ELSE n

Min(a, b) == IF a <= b THEN a ELSE b

RECURSIVE GCD(_, _)
GCD(m, n) == IF n = 0 THEN m ELSE GCD(n, m % n)

R(a, b, d) ==
    IF d = 1 THEN [a |-> a, b |-> b, d |-> 1]
    ELSE LET g == GCD(GCD(Abs(a), Abs(b)), d)
         IN  [a |-> a \div g, b |-> b \div g, d |-> d \div g]

FromInt(n) == [a |-> n, b |-> 0, d |-> 1]

RZero == FromInt(0)

RAdd(x, y) ==
    IF x.d = y.d
    THEN R(x.a + y.a, x.b + y.b, x.d)
    ELSE R(x.a * y.d + y.a * x.d, x.b * y.d + y.b * x.d, x.d * y.d)

RNeg(x) == [a |-> -x.a, b |-> -x.b, d |-> x.d]

RSub(x, y) == RAdd(x, RNeg(y))

RMul(x, y) ==
    IF (x.a = 0 /\ x.b = 0) \/ (y.a = 0 /\ y.b = 0) THEN [a |-> 0, b |-> 0, d |-> 1]
    ELSE R(x.a * y.a + 3 * x.b * y.b, x.a * y.b + x.b * y.a, x.d * y.d)

\* the sign of a + b*sqrt(3): -1, 0 or 1
RSign(x) ==
    IF x.a = 0 /\ x.b = 0 THEN 0
    ELSE IF x.a >= 0 /\ x.b >= 0 THEN 1
    ELSE IF x.a <= 0 /\ x.b <= 0 THEN -1
    ELSE IF x.a > 0 THEN (IF x.a * x.a > 3 * x.b * x.b THEN 1 ELSE -1)
    ELSE (IF 3 * x.b * x.b > x.a * x.a THEN 1 ELSE -1)

RLess(x, y) == RSign(RSub(x, y)) < 0

RLeq(x, y) == RSign(RSub(x, y)) <= 0

\* cos and sin of t twelfths of a turn (angle = 2*PI*t/12)
Cos12(t) ==
    LET r == t % 12
    IN  CASE r = 0 -> [a |-> 1, b |-> 0, d |-> 1]
          [] r \in {1, 11} -> [a |-> 0, b |-> 1, d |-> 2]
          [] r \in {2, 10} -> [a |-> 1, b |-> 0, d |-> 2]
          [] r \in {3, 9} -> [a |-> 0, b |-> 0, d |-> 1]
          [] r \in {4, 8} -> [a |-> -1, b |-> 0, d |-> 2]
          [] r \in {5, 7} -> [a |-> 0, b |-> -1, d |-> 2]
          [] r = 6 -> [a |-> -1, b |-> 0, d |-> 1]

Sin12(t) == Cos12(t + 9)

----------------------------------------------------------------------------
(* struct Complex *)

Complex(re, im) == [re |-> re, im |-> im]

CZero == Complex(RZero, RZero)

\* the square of Complex::magnitude (the square root is monotone, and the
\* program only compares magnitudes)
magnitude2(c) == RAdd(RMul(c.re, c.re), RMul(c.im, c.im))

rotate(c, angle) ==
    LET cos == Cos12(angle)
        sin == Sin12(angle)
    IN  Complex(RSub(RMul(c.re, cos), RMul(c.im, sin)),
                RAdd(RMul(c.re, sin), RMul(c.im, cos)))

add(c, other) == Complex(RAdd(c.re, other.re), RAdd(c.im, other.im))

scale(c, scalar) == Complex(RMul(c.re, scalar), RMul(c.im, scalar))

multiply(c, other) ==
    Complex(RSub(RMul(c.re, other.re), RMul(c.im, other.im)),
            RAdd(RMul(c.re, other.im), RMul(c.im, other.re)))

Vector2(x, y) == [x |-> x, y |-> y]

FourierComponent(freq, coef) == [freq |-> freq, coef |-> coef]

----------------------------------------------------------------------------
(* compute_complex_dft *)

\* faulty variant: the angle of exp_term without its minus sign
RECURSIVE DftSumForward(_, _, _)
DftSumForward(sig, k, i) ==
    IF i = 0 THEN CZero
    ELSE LET n == Len(sig)
             angle == (12 * k * (i - 1)) \div n
             exp_term == Complex(Cos12(angle), Sin12(angle))
             product == multiply(exp_term, sig[i])
         IN  add(DftSumForward(sig, k, i - 1), product)

\* the inner loop: the sum over the samples 0 .. i-1 of exp_term * value
RECURSIVE DftSum(_, _, _)
DftSum(sig, k, i) ==
    IF i = 0 THEN CZero
    ELSE LET n == Len(sig)
             angle == -((12 * k * (i - 1)) \div n)
             exp_term == Complex(Cos12(angle), Sin12(angle))
             product == multiply(exp_term, sig[i])
         IN  add(DftSum(sig, k, i - 1), product)

\* faulty variant: k < n / 2 in place of k <= n / 2
FoldFreqStrict(k, n) == IF k < n \div 2 THEN k ELSE k - n

\* DFT index k to signed frequency
FoldFreq(k, n) == IF k <= n \div 2 THEN k ELSE k - n

\* faulty variant: the sum not scaled by 1 / n
DftComponentUnscaled(sig, k) ==
    FourierComponent(FoldFreq(k, Len(sig)), DftSum(sig, k, Len(sig)))

\* the body of the outer loop for index k
DftComponent(sig, k) ==
    LET n == Len(sig)
        coef == scale(DftSum(sig, k, n), R(1, 0, n))
    IN  FourierComponent(FoldFreq(k, n), coef)

\* faulty variant: an element also goes before one of equal magnitude
MagnitudeBeforeOrEqual(a, b) == RLeq(magnitude2(b.coef), magnitude2(a.coef))

\* a.magnitude() > b.magnitude(): a sorts strictly before b
MagnitudeBefore(a, b) == RLess(magnitude2(b.coef), magnitude2(a.coef))

\* Vec::sort_by is stable: x goes before the first element it strictly precedes
RECURSIVE InsertByMagnitude(_, _)
InsertByMagnitude(s, x) ==
    IF s = <<>> THEN <<x>>
    ELSE IF MagnitudeBefore(x, Head(s)) THEN <<x>> \o s
    ELSE <<Head(s)>> \o InsertByMagnitude(Tail(s), x)

RECURSIVE SortByMagnitude(_, _)
SortByMagnitude(s, i) ==
    IF i = 0 THEN <<>>
    ELSE InsertByMagnitude(SortByMagnitude(s, i - 1), s[i])

RECURSIVE InsertByFreq(_, _)
InsertByFreq(s, x) ==
    IF s = <<>> THEN <<x>>
    ELSE IF x.freq < Head(s).freq THEN <<x>> \o s
    ELSE <<Head(s)>> \o InsertByFreq(Tail(s), x)

\* faulty variant: no sort by frequency after the truncation
SortByFreqSkipped(s, i) == s

RECURSIVE SortByFreq(_, _)
SortByFreq(s, i) ==
    IF i = 0 THEN <<>>
    ELSE InsertByFreq(SortByFreq(s, i - 1), s[i])

\* faulty variant: at least one element is kept
truncateKeepsOne(s, len) == SubSeq(s, 1, Min(IF len = 0 THEN 1 ELSE len, Len(s)))

truncate(s, len) == SubSeq(s, 1, Min(len, Len(s)))

\* the components before the sort: index k = 0 .. n-1 in order
AllComponents(sig) == [k \in 1..Len(sig) |-> DftComponent(sig, k - 1)]

compute_complex_dft(sig, m) ==
    IF Len(sig) = 0 THEN <<>>
    ELSE LET all == AllComponents(sig)
             sorted == SortByMagnitude(all, Len(all))
             kept == truncate(sorted, m)
         IN  SortByFreq(kept, Len(kept))

----------------------------------------------------------------------------
(* PathFourier::evaluate and PathFourier::draw_vectors *)

\* the loop of evaluate over the first i components
RECURSIVE EvalSum(_, _, _)
EvalSum(comps, t, i) ==
    IF i = 0 THEN CZero
    ELSE LET angle == comps[i].freq * t
             rotated == rotate(comps[i].coef, angle)
         IN  add(EvalSum(comps, t, i - 1), rotated)

evaluate(comps, ctr, t) ==
    LET sum == EvalSum(comps, t, Len(comps))
    IN  Vector2(RAdd(ctr.x, sum.re), RAdd(ctr.y, sum.im))

\* the value of `current` after i iterations of the loop of draw_vectors
RECURSIVE ChainCurrent(_, _, _)
ChainCurrent(comps, t, i) ==
    IF i = 0 THEN CZero
    ELSE LET prev == ChainCurrent(comps, t, i - 1)
             angle == comps[i].freq * t
             rot == rotate(comps[i].coef, angle)
         IN  add(prev, rot)

\* faulty variant: every line starts at the center
draw_vectorsFromCenter(comps, ctr, t) ==
    [i \in 1..Len(comps) |->
        LET current == ChainCurrent(comps, t, i)
        IN  [prev_pos |-> ctr,
             current_pos |-> Vector2(RAdd(ctr.x, current.re), RAdd(ctr.y, current.im))]]

\* the lines draw_vectors draws: one (prev_pos, current_pos) per component
draw_vectors(comps, ctr, t) ==
    [i \in 1..Len(comps) |->
        LET prev == ChainCurrent(comps, t, i - 1)
            current == ChainCurrent(comps, t, i)
        IN  [prev_pos |-> Vector2(RAdd(ctr.x, prev.re), RAdd(ctr.y, prev.im)),
             current_pos |-> Vector2(RAdd(ctr.x, current.re), RAdd(ctr.y, current.im))]]

----------------------------------------------------------------------------
(* PathFourier::new and PathFourier::update_path *)

RECURSIVE SumX(_, _)
SumX(pts, i) == IF i = 0 THEN RZero ELSE RAdd(SumX(pts, i - 1), pts[i].x)

RECURSIVE SumY(_, _)
SumY(pts, i) == IF i = 0 THEN RZero ELSE RAdd(SumY(pts, i - 1), pts[i].y)

\* the path moved so that its centroid is the origin, as complex numbers
CenteredSignal(pts) ==
    LET n == Len(pts)
        path_center_x == RMul(SumX(pts, n), R(1, 0, n))
        path_center_y == RMul(SumY(pts, n), R(1, 0, n))
    IN  [i \in 1..n |->
            Complex(RSub(pts[i].x, path_center_x), RSub(pts[i].y, path_center_y))]

\* the components field of PathFourier::new(path_points, center, color, m)
PathFourierNew(pts, m) ==
    IF pts = <<>> THEN <<>>
    ELSE compute_complex_dft(CenteredSignal(pts), m)

\* faulty variant: nothing is removed
update_pathNoPop(trail, p, max_path_length) == <<p>> \o trail

\* faulty variant: the newest of the old points is removed, not the oldest
update_pathPopsFront(trail, p, max_path_length) ==
    LET inserted == <<p>> \o trail
    IN  IF Len(inserted) > max_path_length
        THEN <<p>> \o SubSeq(inserted, 3, Len(inserted))
        ELSE inserted

\* the trail after update_path(point, max_path_length)
update_path(trail, p, max_path_length) ==
    LET inserted == <<p>> \o trail
    IN  IF Len(inserted) > max_path_length
        THEN SubSeq(inserted, 1, Len(inserted) - 1)
        ELSE inserted

----------------------------------------------------------------------------
(* f32, as its IEEE 754 bit pattern: 8 exponent bits above 23 fraction     *)
(* bits.  All values here are zero or positive and normal, so the order of *)
(* the values is the order of the patterns.                                *)

F32Zero == 0

\* 1.0 = 0x3F800000
F32One == 1065353216

\* the value is F32Mant * 2^F32Exp, with 2^23 <= F32Mant < 2^24
F32Mant(x) == 8388608 + (x % 8388608)

F32Exp(x) == x \div 8388608 - 150

F32Pack(mant, exp) == (exp + 150) * 8388608 + (mant - 8388608)

\* q * 2^exp (q < 2^25) plus num/den of a unit, rounded to nearest, ties to
\* even
F32Round(q, num, den, exp) ==
    IF q < 16777216
    THEN LET up == 2 * num > den \/ (2 * num = den /\ q % 2 = 1)
             r == IF up THEN q + 1 ELSE q
         IN  IF r = 16777216 THEN F32Pack(8388608, exp + 1) ELSE F32Pack(r, exp)
    ELSE LET h == q \div 2
             num2 == (q % 2) * den + num
             up == num2 > den \/ (num2 = den /\ h % 2 = 1)
             r == IF up THEN h + 1 ELSE h
         IN  IF r = 16777216 THEN F32Pack(8388608, exp + 2) ELSE F32Pack(r, exp + 1)

\* x + y for x >= y > 0
F32AddOrdered(x, y) ==
    LET s == F32Exp(x) - F32Exp(y)
    IN  IF s > 25 THEN x
        ELSE F32Round(F32Mant(x) + F32Mant(y) \div 2^s, F32Mant(y) % 2^s, 2^s,
                      F32Exp(x))

F32Add(x, y) ==
    IF x = F32Zero THEN y
    ELSE IF y = F32Zero THEN x
    ELSE IF x >= y THEN F32AddOrdered(x, y)
    ELSE F32AddOrdered(y, x)

----------------------------------------------------------------------------
(* main *)

\* let dt: f32 = 0.0005, the nearest f32: 0x3A03126F = 8589935 * 2^-34
Dt == 973279855

\* the number of elements of paths
NumPaths == 6

\* path.update_path(point, 2000)
TrailCap == 2000

\* faulty variant: the time is compared with 1.0 before dt is added
AdvanceTimeLate(t) == IF t >= F32One THEN F32Zero ELSE F32Add(t, Dt)

\* time += dt; if time >= 1.0 { time = 0.0 }
AdvanceTime(t) ==
    LET increased == F32Add(t, Dt)
    IN  IF increased >= F32One THEN F32Zero ELSE increased

----------------------------------------------------------------------------
(* Inputs *)

\* the points on the two axes within MaxCoord of the origin
Points ==
    {Complex(FromInt(x), RZero) : x \in -MaxCoord..MaxCoord}
    \cup {Complex(RZero, FromInt(y)) : y \in -MaxCoord..MaxCoord}

\* the lengths whose roots of unity are twelfths of a turn
Lengths(max) == {n \in 0..max : n = 0 \/ 12 % n = 0}

Signals == UNION {[1..n -> Points] : n \in Lengths(MaxLen)}

\* path points: the corners of a square about the origin
PathPoints == {Vector2(FromInt(x), FromInt(y)) : x \in {-1, 1}, y \in {-1, 1}}

Paths == UNION {[1..n -> PathPoints] : n \in Lengths(MaxPathLen)}

Origin == Vector2(RZero, RZero)

\* the origin and the center of the first element of paths
Centers == {Origin, Vector2(FromInt(300), FromInt(200))}

\* the times evaluate is given: the twelfths of the period
Times == 0..11

TrailPoints == {Vector2(FromInt(x), RZero) : x \in 0..MaxPoint}

----------------------------------------------------------------------------
(* Initial values of the variables a scenario does not use *)

IdleObject ==
    /\ signal = <<>>
    /\ path_points = <<>>
    /\ num_components = 0
    /\ components = <<>>
    /\ center = Origin
    /\ eval_time = 0
    /\ point = Origin
    /\ segments = <<>>

IdleTrail ==
    /\ path = <<>>
    /\ calls = <<>>

IdleMain ==
    /\ time = F32Zero
    /\ trail_times = <<>>
    /\ passed = <<>>
    /\ frame = 0
    /\ cycle_len = 0

objectVars == <<signal, path_points, num_components, components, center,
                eval_time, point, segments>>

trailVars == <<path, calls>>

mainVars == <<time, trail_times, passed, frame, cycle_len>>

----------------------------------------------------------------------------
(* compute_complex_dft applied to a signal, and the result evaluated with  *)
(* zero center at the sample times                                         *)

Init ==
    /\ pc = "signal"
    /\ signal \in Signals
    /\ path_points = <<>>
    /\ num_components = 0
    /\ components = <<>>
    /\ center = Origin
    /\ eval_time = 0
    /\ point = Origin
    /\ segments = <<>>
    /\ IdleTrail
    /\ IdleMain

Transform ==
    /\ pc = "signal"
    /\ \E m \in 0..MaxComponents :
        /\ num_components' = m
        /\ components' = compute_complex_dft(signal, m)
    /\ pc' = "transformed"
    /\ UNCHANGED <<signal, path_points, center, eval_time, point, segments>>
    /\ UNCHANGED <<trailVars, mainVars>>

\* evaluate at the sample time j / n
EvaluateSample ==
    /\ pc = "transformed"
    /\ \E j \in 0..(Len(signal) - 1) :
        /\ eval_time' = (12 \div Len(signal)) * j
        /\ point' = evaluate(components, center, (12 \div Len(signal)) * j)
    /\ pc' = "evaluated"
    /\ UNCHANGED <<signal, path_points, num_components, components, center, segments>>
    /\ UNCHANGED <<trailVars, mainVars>>

Next == Transform \/ EvaluateSample

Spec == Init /\ [][Next]_vars

\* the transform alone
SpecDft == Init /\ [][Transform]_vars

----------------------------------------------------------------------------
(* One reconstruction: PathFourier::new, then the body of main's loop for  *)
(* it at one time: draw_vectors, evaluate, update_path                     *)

InitRecon ==
    /\ pc = "new"
    /\ signal = <<>>
    /\ path_points \in Paths
    /\ num_components \in 0..MaxComponents
    /\ components = <<>>
    /\ center \in Centers
    /\ eval_time = 0
    /\ point = Origin
    /\ segments = <<>>
    /\ IdleTrail
    /\ IdleMain

New ==
    /\ pc = "new"
    /\ components' = PathFourierNew(path_points, num_components)
    /\ path' = <<>>
    /\ pc' = "built"
    /\ UNCHANGED <<signal, path_points, num_components, center, eval_time,
                   point, segments, calls>>
    /\ UNCHANGED mainVars

FrameBody ==
    /\ pc = "built"
    /\ \E t \in Times :
        /\ eval_time' = t
        /\ segments' = draw_vectors(components, center, t)
        /\ point' = evaluate(components, center, t)
        /\ path' = update_path(path, evaluate(components, center, t), TrailCap)
    /\ pc' = "drawn"
    /\ UNCHANGED <<signal, path_points, num_components, components, center, calls>>
    /\ UNCHANGED mainVars

NextRecon == New \/ FrameBody

SpecRecon == InitRecon /\ [][NextRecon]_vars

----------------------------------------------------------------------------
(* The trail under a sequence of update_path calls *)

InitTrail ==
    /\ pc = "trail"
    /\ IdleObject
    /\ IdleTrail
    /\ IdleMain

UpdatePath ==
    /\ pc = "trail"
    /\ Len(calls) < MaxCalls
    /\ \E p \in TrailPoints, max_path_length \in 0..MaxPathLength :
        /\ path' = update_path(path, p, max_path_length)
        /\ calls' = Append(calls, [point |-> p, max |-> max_path_length,
                                   before |-> path])
    /\ UNCHANGED <<pc, objectVars, mainVars>>

SpecTrail == InitTrail /\ [][UpdatePath]_vars

----------------------------------------------------------------------------
(* main's loop: every frame hands time to each element of paths, which     *)
(* puts the point it evaluates there on its trail, then advances time.     *)
(* Every element is handed the same time and the same max_path_length, so  *)
(* one sequence of times tells which points every trail holds.             *)

InitFrame ==
    /\ pc = "loop"
    /\ IdleObject
    /\ IdleTrail
    /\ time = F32Zero
    /\ trail_times = <<>>
    /\ passed = <<>>
    /\ frame = 0
    /\ cycle_len = 0

Frame ==
    /\ pc = "loop"
    /\ passed' = [i \in 1..NumPaths |-> time]
    /\ trail_times' = update_path(trail_times, time, TrailCap)
    /\ time' = AdvanceTime(time)
    /\ frame' = IF AdvanceTime(time) = F32Zero THEN 0 ELSE frame + 1
    /\ cycle_len' = IF AdvanceTime(time) = F32Zero THEN frame + 1 ELSE cycle_len
    /\ UNCHANGED <<pc, objectVars, trailVars>>

SpecFrame == InitFrame /\ [][Frame]_vars

----------------------------------------------------------------------------
(* Properties of the transform *)

SignalLen == Len(signal)

\* the DFT index of a returned component
IndexOf(c) == IF c.freq >= 0 THEN c.freq ELSE c.freq + SignalLen

\* the sample the evaluation time of the state stands at
SampleAt == signal[(eval_time * SignalLen) \div 12 + 1]

Square4 ==
    <<Complex(FromInt(1), FromInt(0)), Complex(FromInt(0), FromInt(1)),
      Complex(FromInt(-1), FromInt(0)), Complex(FromInt(0), FromInt(-1))>>

\* C2: with no truncation (num_components >= n), evaluate with zero center at
\* the sample time j/n returns signal[j] (inverse DFT identity)
C2_InverseIdentity ==
    (pc = "evaluated" /\ num_components >= SignalLen)
        => point = Vector2(SampleAt.re, SampleAt.im)

\* the 4-point signal (1,0),(0,1),(-1,0),(0,-1) with 4 components, evaluated
\* at t = 0.25, gives (0,1)
C2_Witness ==
    /\ pc = "evaluated"
    /\ signal = Square4
    /\ num_components = 4
    /\ eval_time = 3
    /\ point = Vector2(FromInt(0), FromInt(1))

\* C3: every returned frequency f has -n/2 < f <= n/2, and is its DFT index k
\* when k <= n div 2 and k - n otherwise
C3_FrequencyFolding ==
    pc = "transformed" =>
        \A i \in 1..Len(components) :
            LET f == components[i].freq
                k == IndexOf(components[i])
            IN  /\ -SignalLen < 2 * f
                /\ 2 * f <= SignalLen
                /\ k \in 0..(SignalLen - 1)
                /\ (k <= SignalLen \div 2 => f = k)
                /\ (k > SignalLen \div 2 => f = k - SignalLen)
                /\ components[i].coef = DftComponent(signal, k).coef

\* an even length at the fold: index n div 2 stays positive, the next is
\* negative
C3_Witness ==
    /\ pc = "transformed"
    /\ SignalLen = 4
    /\ Len(components) = 4
    /\ components[1].freq = -1
    /\ components[4].freq = 2

\* C8: exactly min(n, m) components, in strictly ascending frequency order
C8_CountAndOrder ==
    pc = "transformed" =>
        /\ Len(components) = Min(SignalLen, num_components)
        /\ \A i \in 1..(Len(components) - 1) :
               components[i].freq < components[i + 1].freq

\* a truncated result whose largest component is not the lowest frequency
C8_Witness ==
    /\ pc = "transformed"
    /\ SignalLen = 4
    /\ num_components = 2
    /\ Len(components) = 2
    /\ RLess(magnitude2(components[1].coef), magnitude2(components[2].coef))

\* the DFT indices kept
KeptIndices == {IndexOf(components[i]) : i \in 1..Len(components)}

\* C9: every kept component is at least as large in magnitude as every
\* discarded one, and of two of equal magnitude the lower DFT index is kept
C9_LargestKept ==
    pc = "transformed" =>
        LET all == AllComponents(signal)
        IN  /\ \A i \in 1..Len(components) :
                   components[i] = all[IndexOf(components[i]) + 1]
            /\ \A k \in KeptIndices :
                   \A d \in (0..(SignalLen - 1)) \ KeptIndices :
                       LET mk == magnitude2(all[k + 1].coef)
                           md == magnitude2(all[d + 1].coef)
                       IN  /\ RLeq(md, mk)
                           /\ (md = mk => k < d)

\* a truncation that cuts through components of equal magnitude
C9_Witness ==
    /\ pc = "transformed"
    /\ SignalLen = 4
    /\ num_components = 2
    /\ LET all == AllComponents(signal)
       IN  /\ magnitude2(all[1].coef) = magnitude2(all[2].coef)
           /\ magnitude2(all[2].coef) = magnitude2(all[3].coef)
           /\ magnitude2(all[1].coef) # RZero
           /\ KeptIndices = {0, 1}

\* squared distance between a sample and a reconstructed point
Dist2(p, v) ==
    LET dx == RSub(p.re, v.x)
        dy == RSub(p.im, v.y)
    IN  RAdd(RMul(dx, dx), RMul(dy, dy))

\* the squared reconstruction error at each sample time j/n
SampleErrors2(sig, comps) ==
    [j \in 1..Len(sig) |->
        Dist2(sig[j], evaluate(comps, Origin, (12 \div Len(sig)) * (j - 1)))]

MaxErr2(sig, comps) ==
    LET e == SampleErrors2(sig, comps)
    IN  IF Len(sig) = 0 THEN RZero
        ELSE e[CHOOSE j \in 1..Len(sig) : \A i \in 1..Len(sig) : RLeq(e[i], e[j])]

RECURSIVE SumTo(_, _)
SumTo(e, i) == IF i = 0 THEN RZero ELSE RAdd(SumTo(e, i - 1), e[i])

SumErr2(sig, comps) == SumTo(SampleErrors2(sig, comps), Len(sig))

\* C6 as stated: one more component never increases the maximum over the
\* sample times of the distance between the signal and the reconstruction
C6_MaxErrorMonotone ==
    (pc = "transformed" /\ num_components < SignalLen)
        => RLeq(MaxErr2(signal, compute_complex_dft(signal, num_components + 1)),
                MaxErr2(signal, components))

\* C6 amended: one more component never increases the sum over the sample
\* times of the squared distance between the signal and the reconstruction
C6_SquaredErrorMonotone ==
    (pc = "transformed" /\ num_components < SignalLen)
        => RLeq(SumErr2(signal, compute_complex_dft(signal, num_components + 1)),
                SumErr2(signal, components))

\* a step that lowers the summed squared error and raises the maximum error
C6_Witness ==
    /\ pc = "transformed"
    /\ num_components < SignalLen
    /\ LET more == compute_complex_dft(signal, num_components + 1)
       IN  /\ RLess(SumErr2(signal, more), SumErr2(signal, components))
           /\ RLess(MaxErr2(signal, components), MaxErr2(signal, more))

----------------------------------------------------------------------------
(* Properties of one reconstruction *)

\* C4: the last line draw_vectors draws ends at the point evaluate returns for
\* the same time; the first line starts at the center and every later line
\* starts where the line before it ended
C4_ChainConsistency ==
    pc = "drawn" =>
        /\ Len(segments) = Len(components)
        /\ segments # <<>> =>
               /\ segments[1].prev_pos = center
               /\ segments[Len(segments)].current_pos = point
        /\ \A i \in 2..Len(segments) :
               segments[i].prev_pos = segments[i - 1].current_pos

\* a chain of three lines, the outer two of them not of length zero, away
\* from the origin and at a time that is no quarter of the period
C4_Witness ==
    /\ pc = "drawn"
    /\ Len(segments) = 3
    /\ center # Origin
    /\ eval_time = 5
    /\ segments[1].current_pos # segments[1].prev_pos
    /\ segments[3].current_pos # segments[3].prev_pos
    /\ point # center

C5_WitnessEmpty ==
    /\ pc = "drawn"
    /\ path_points = <<>>
    /\ num_components = 5
    /\ center # Origin
    /\ point = center

----------------------------------------------------------------------------
(* Properties of the trail *)

LastCall == calls[Len(calls)]

\* the points the calls inserted, most recent first
RECURSIVE InsertedNewestFirst(_)
InsertedNewestFirst(cs) ==
    IF cs = <<>> THEN <<>>
    ELSE <<cs[Len(cs)].point>> \o InsertedNewestFirst(SubSeq(cs, 1, Len(cs) - 1))

\* every call so far had max_path_length >= 1 and none had a smaller one than
\* the call before it
MaxNeverLowered ==
    /\ \A i \in 1..Len(calls) : calls[i].max >= 1
    /\ \A i \in 2..Len(calls) : calls[i - 1].max <= calls[i].max

\* every call so far had the same max_path_length >= 1
SameMax ==
    /\ \A i \in 1..Len(calls) : calls[i].max = calls[1].max
    /\ \A i \in 1..Len(calls) : calls[i].max >= 1

\* C1 as stated: after each call, whatever the max_path_length of the calls,
\* the trail is no longer than that call's max_path_length and starts with
\* the point the call inserted
C1_TrailBound ==
    calls # <<>> =>
        /\ Len(path) <= LastCall.max
        /\ path # <<>>
        /\ path[1] = LastCall.point

\* C1 amended: when every call has max_path_length >= 1 and no call a smaller
\* one than the call before, after each call the trail is no longer than that
\* call's max_path_length and starts with the point the call inserted
C1_TrailBoundNeverLowered ==
    (calls # <<>> /\ MaxNeverLowered) =>
        /\ Len(path) <= LastCall.max
        /\ path # <<>>
        /\ path[1] = LastCall.point

\* a call that evicts, after an earlier call with a smaller max_path_length
C1_Witness ==
    /\ Len(calls) = 4
    /\ MaxNeverLowered
    /\ calls[1].max = 1
    /\ calls[4].max = 2
    /\ Len(calls[4].before) = 2
    /\ Len(path) = 2

\* C10: with the same max_path_length L >= 1 on each of k calls, the trail is
\* the last min(k, L) inserted points, most recent first, and a call removes
\* at most one point, the oldest
C10_Fifo ==
    (calls # <<>> /\ SameMax) =>
        LET k == Len(calls)
            L == LastCall.max
            before == LastCall.before
        IN  /\ path = SubSeq(InsertedNewestFirst(calls), 1, Min(k, L))
            /\ Len(path) >= Len(before)
            /\ Len(path) = Len(before) =>
                   path = <<LastCall.point>> \o SubSeq(before, 1, Len(before) - 1)

\* two evictions in a row with L = 2, of different points
C10_Witness ==
    /\ Len(calls) = 4
    /\ SameMax
    /\ LastCall.max = 2
    /\ calls[1].point # calls[2].point
    /\ calls[3].point # calls[4].point
    /\ Len(calls[3].before) = 2
    /\ Len(calls[4].before) = 2

----------------------------------------------------------------------------
(* Properties of main's loop *)

\* C7: every frame hands the same time, in [0, 1), to every instance; the
\* time then grows by dt and is 0.0 again exactly when the grown value
\* reaches 1.0, which is after 2000 = 1/dt frames; the times repeat from
\* there, frame for frame
C7_TimeWraps ==
    /\ \A i \in 1..Len(passed) :
           passed[i] = passed[1] /\ F32Zero <= passed[i] /\ passed[i] < F32One
    /\ Len(passed) \in {0, NumPaths}
    /\ passed # <<>> =>
           /\ LET increased == F32Add(passed[1], Dt)
              IN  /\ passed[1] < increased
                  /\ time = IF increased < F32One THEN increased ELSE F32Zero
           /\ trail_times[1] = passed[1]
    /\ time = F32Zero <=> frame = 0
    /\ cycle_len \in {0, 2000}
    /\ frame < 2000
    /\ Len(trail_times) <= TrailCap
    /\ Len(trail_times) = TrailCap => time = trail_times[TrailCap]

\* the first wrap: the time handed out last was 0x3F7FE075 = 0.99951869...,
\* the next is 0.0 again, as it was 2000 frames before
C7_Witness ==
    /\ cycle_len = 2000
    /\ frame = 0
    /\ time = F32Zero
    /\ Len(trail_times) = TrailCap
    /\ passed[NumPaths] = 1065345141
    /\ trail_times[TrailCap] = F32Zero
    /\ trail_times[TrailCap - 1] = Dt
    /\ trail_times[TrailCap - 2] = 981668463
    /\ trail_times[TrailCap - 3] = 985963430

====
